---- MODULE Spec2Model ----
(***************************************************************************)
(* Model of tantivy's Intersection DocSet (src/query/intersection.rs).     *)
(*                                                                         *)
(* An Intersection owns a vector of child DocSets, a `finished` latch and  *)
(* the current DocId.  The children are VecDocSet cursors (the in-memory   *)
(* fixture used by the tests of intersection.rs); their advance/skip_next  *)
(* are the DocSet contract's: skip_next always advances once and then      *)
(* keeps advancing while doc() < target (intersection.rs:47-51 relies on   *)
(* this: "Calling `skip_next` would advance this docset and miss it").     *)
(***************************************************************************)
EXTENDS Integers, Sequences, FiniteSets, TLC

\* ---------------------------------------------------------------- bounds
MaxDoc == 2
MaxChildren == 3
MaxPre == 1
MaxIdf == 2

DocIds == 0..MaxDoc
Targets == 0..(MaxDoc + 1)

\* ------------------------------------------------------- generic helpers
RECURSIVE SortedSeq(_)
SortedSeq(S) ==
  IF S = {} THEN <<>>
  ELSE LET m == CHOOSE x \in S : \A y \in S : x <= y
       IN <<m>> \o SortedSeq(S \ {m})

Range(s) == {s[i] : i \in 1..Len(s)}

IsPrefix(s, t) == Len(s) <= Len(t) /\ \A i \in 1..Len(s) : s[i] = t[i]

StrictlyIncreasing(s) == \A i \in 1..Len(s) : \A j \in 1..Len(s) : i < j => s[i] < s[j]

Perms(n) == {p \in [1..n -> 1..n] : \A i \in 1..n : \E j \in 1..n : p[j] = i}

\* ------------------------------------------------ child DocSet: VecDocSet
\* cursor = 0 is the unpositioned cursor, cursor = k in 1..Len(doc_ids) is
\* parked on doc_ids[k], cursor = Len(doc_ids)+1 is the exhausted cursor.
VecDocSet(doc_ids) == [doc_ids |-> doc_ids, cursor |-> 0]

VecExhausted(d) == d.cursor > Len(d.doc_ids)

VecPositioned(d) == d.cursor >= 1 /\ d.cursor <= Len(d.doc_ids)

\* advance(): move the cursor one step; true iff it is parked on an element.
\* An exhausted cursor stays exhausted.
VecAdvance(d) ==
  LET c == IF d.cursor > Len(d.doc_ids) THEN d.cursor ELSE d.cursor + 1
  IN [docset |-> [d EXCEPT !.cursor = c], res |-> c <= Len(d.doc_ids)]

VecDoc(d) == d.doc_ids[d.cursor]

VecSizeHint(d) == Len(d.doc_ids)

\* The loop of DocSet::skip_next after its first advance().
RECURSIVE VecSkipLoop(_, _)
VecSkipLoop(d, target) ==
  IF VecDoc(d) < target
    THEN LET a == VecAdvance(d)
         IN IF a.res THEN VecSkipLoop(a.docset, target)
            ELSE [docset |-> a.docset, res |-> "End"]
  ELSE IF VecDoc(d) = target THEN [docset |-> d, res |-> "Reached"]
  ELSE [docset |-> d, res |-> "OverStep"]

\* DocSet::skip_next of a child: advance once, then advance while doc() < target.
VecSkipNext(d, target) ==
  LET a == VecAdvance(d)
  IN IF a.res THEN VecSkipLoop(a.docset, target)
     ELSE [docset |-> a.docset, res |-> "End"]

\* ------------------------------------------------------------ Intersection
\* docsets.sort_by_key(|docset| docset.size_hint()): a stable sort.
RECURSIVE InsertByKey(_, _)
InsertByKey(sorted, d) ==
  IF sorted = <<>> THEN <<d>>
  ELSE IF VecSizeHint(d) < VecSizeHint(sorted[Len(sorted)])
    THEN Append(InsertByKey(SubSeq(sorted, 1, Len(sorted) - 1), d), sorted[Len(sorted)])
  ELSE Append(sorted, d)

RECURSIVE SortByKey(_)
SortByKey(ds) ==
  IF ds = <<>> THEN <<>>
  ELSE InsertByKey(SortByKey(SubSeq(ds, 1, Len(ds) - 1)), ds[Len(ds)])

\* The precondition weakened to docsets.len() >= 1.
FromPreconditionOne(ds) == Len(ds) >= 1

\* The precondition of From: docsets.len() >= 2.
FromPrecondition(ds) == Len(ds) >= 2

\* Intersection::from
From(ds) == [docsets |-> SortByKey(ds), finished |-> FALSE, doc |-> 0]

\* One skip_next call issued to a child: which child, with which target,
\* where the child was (at = -1: not parked on a DocId) and what it reported
\* (doc = -1: exhausted).
ChildCall(ord, target, d, r) ==
  [ord |-> ord, target |-> target,
   at |-> IF VecPositioned(d) THEN VecDoc(d) ELSE -1,
   res |-> r.res,
   doc |-> IF r.res = "End" THEN -1 ELSE VecDoc(r.docset)]

Logged(e, l) == [l EXCEPT !.calls = <<e>> \o @]

\* AdvanceLoop without the `ord != candidate_ord` test: the owner of the
\* candidate is skipped again.
RECURSIVE AdvanceLoopNoOwner(_, _, _, _)
AdvanceLoopNoOwner(ds, ord, candidate_doc, candidate_ord) ==
  IF ord > Len(ds) THEN [docsets |-> ds, res |-> "Done", candidate |-> candidate_doc,
                        calls |-> <<>>]
  ELSE LET r == VecSkipNext(ds[ord], candidate_doc)
           ds2 == [ds EXCEPT ![ord] = r.docset]
           e == ChildCall(ord, candidate_doc, ds[ord], r)
       IN CASE r.res = "Reached" -> Logged(e, AdvanceLoopNoOwner(ds2, ord + 1, candidate_doc, candidate_ord))
            [] r.res = "OverStep" -> Logged(e, AdvanceLoopNoOwner(ds2, 1, VecDoc(r.docset), ord))
            [] OTHER -> [docsets |-> ds2, res |-> "End", candidate |-> candidate_doc,
                         calls |-> <<e>>]

\* AdvanceLoop with `continue` in place of `continue 'outer`: after an
\* OverStep the scan goes on with the next child instead of restarting.
RECURSIVE AdvanceLoopNoRestart(_, _, _, _)
AdvanceLoopNoRestart(ds, ord, candidate_doc, candidate_ord) ==
  IF ord > Len(ds) THEN [docsets |-> ds, res |-> "Done", candidate |-> candidate_doc,
                        calls |-> <<>>]
  ELSE IF ord = candidate_ord
    THEN AdvanceLoopNoRestart(ds, ord + 1, candidate_doc, candidate_ord)
  ELSE LET r == VecSkipNext(ds[ord], candidate_doc)
           ds2 == [ds EXCEPT ![ord] = r.docset]
           e == ChildCall(ord, candidate_doc, ds[ord], r)
       IN CASE r.res = "Reached" -> Logged(e, AdvanceLoopNoRestart(ds2, ord + 1, candidate_doc, candidate_ord))
            [] r.res = "OverStep" -> Logged(e, AdvanceLoopNoRestart(ds2, ord + 1, VecDoc(r.docset), ord))
            [] OTHER -> [docsets |-> ds2, res |-> "End", candidate |-> candidate_doc,
                         calls |-> <<e>>]

\* AdvanceLoop that forgets `candidate_doc = docset.doc()` on OverStep.
RECURSIVE AdvanceLoopKeepCandidate(_, _, _, _)
AdvanceLoopKeepCandidate(ds, ord, candidate_doc, candidate_ord) ==
  IF ord > Len(ds) THEN [docsets |-> ds, res |-> "Done", candidate |-> candidate_doc,
                        calls |-> <<>>]
  ELSE IF ord = candidate_ord
    THEN AdvanceLoopKeepCandidate(ds, ord + 1, candidate_doc, candidate_ord)
  ELSE LET r == VecSkipNext(ds[ord], candidate_doc)
           ds2 == [ds EXCEPT ![ord] = r.docset]
           e == ChildCall(ord, candidate_doc, ds[ord], r)
       IN CASE r.res = "Reached" -> Logged(e, AdvanceLoopKeepCandidate(ds2, ord + 1, candidate_doc, candidate_ord))
            [] r.res = "OverStep" -> Logged(e, AdvanceLoopKeepCandidate(ds2, 1, candidate_doc, ord))
            [] OTHER -> [docsets |-> ds2, res |-> "End", candidate |-> candidate_doc,
                         calls |-> <<e>>]

\* The 'outer loop of advance(): ord is the position of the for loop
\* (1-based), candidate_ord = Len(ds)+1 is the "no owner" sentinel.
RECURSIVE AdvanceLoop(_, _, _, _)
AdvanceLoop(ds, ord, candidate_doc, candidate_ord) ==
  IF ord > Len(ds) THEN [docsets |-> ds, res |-> "Done", candidate |-> candidate_doc,
                        calls |-> <<>>]
  ELSE IF ord = candidate_ord THEN AdvanceLoop(ds, ord + 1, candidate_doc, candidate_ord)
  ELSE LET r == VecSkipNext(ds[ord], candidate_doc)
           ds2 == [ds EXCEPT ![ord] = r.docset]
           e == ChildCall(ord, candidate_doc, ds[ord], r)
       IN CASE r.res = "Reached" -> Logged(e, AdvanceLoop(ds2, ord + 1, candidate_doc, candidate_ord))
            [] r.res = "OverStep" -> Logged(e, AdvanceLoop(ds2, 1, VecDoc(r.docset), ord))
            [] OTHER -> [docsets |-> ds2, res |-> "End", candidate |-> candidate_doc,
                         calls |-> <<e>>]

\* advance() that forgets `self.doc = candidate_doc`.
IntAdvanceKeepDoc(self) ==
  IF self.finished THEN [self |-> self, res |-> FALSE, calls |-> <<>>]
  ELSE LET l == AdvanceLoop(self.docsets, 1, self.doc, Len(self.docsets) + 1)
       IN IF l.res = "End"
            THEN [self |-> [self EXCEPT !.docsets = l.docsets, !.finished = TRUE],
                  res |-> FALSE, calls |-> l.calls]
            ELSE [self |-> [self EXCEPT !.docsets = l.docsets], res |-> TRUE,
                  calls |-> l.calls]

\* Intersection::advance
IntAdvance(self) ==
  IF self.finished THEN [self |-> self, res |-> FALSE, calls |-> <<>>]
  ELSE LET l == AdvanceLoop(self.docsets, 1, self.doc, Len(self.docsets) + 1)
       IN IF l.res = "End"
            THEN [self |-> [self EXCEPT !.docsets = l.docsets, !.finished = TRUE],
                  res |-> FALSE, calls |-> l.calls]
            ELSE [self |-> [self EXCEPT !.docsets = l.docsets, !.doc = l.candidate],
                  res |-> TRUE, calls |-> l.calls]

\* SkipLoop without the `ord == current_ord` test.
RECURSIVE SkipLoopNoOwner(_, _, _, _)
SkipLoopNoOwner(ds, ord, current_target, current_ord) ==
  IF ord > Len(ds) THEN [docsets |-> ds, res |-> "Done", candidate |-> current_target,
                        calls |-> <<>>]
  ELSE LET r == VecSkipNext(ds[ord], current_target)
           ds2 == [ds EXCEPT ![ord] = r.docset]
           e == ChildCall(ord, current_target, ds[ord], r)
       IN CASE r.res = "End" -> [docsets |-> ds2, res |-> "End", candidate |-> current_target,
                         calls |-> <<e>>]
            [] r.res = "OverStep" -> Logged(e, SkipLoopNoOwner(ds2, 1, VecDoc(r.docset), ord))
            [] OTHER -> Logged(e, SkipLoopNoOwner(ds2, ord + 1, current_target, current_ord))

\* SkipLoop with `continue` in place of `continue 'outer`.
RECURSIVE SkipLoopNoRestart(_, _, _, _)
SkipLoopNoRestart(ds, ord, current_target, current_ord) ==
  IF ord > Len(ds) THEN [docsets |-> ds, res |-> "Done", candidate |-> current_target,
                        calls |-> <<>>]
  ELSE IF ord = current_ord THEN SkipLoopNoRestart(ds, ord + 1, current_target, current_ord)
  ELSE LET r == VecSkipNext(ds[ord], current_target)
           ds2 == [ds EXCEPT ![ord] = r.docset]
           e == ChildCall(ord, current_target, ds[ord], r)
       IN CASE r.res = "End" -> [docsets |-> ds2, res |-> "End", candidate |-> current_target,
                         calls |-> <<e>>]
            [] r.res = "OverStep" -> Logged(e, SkipLoopNoRestart(ds2, ord + 1, VecDoc(r.docset), ord))
            [] OTHER -> Logged(e, SkipLoopNoRestart(ds2, ord + 1, current_target, current_ord))

\* The 'outer loop of skip_next().
RECURSIVE SkipLoop(_, _, _, _)
SkipLoop(ds, ord, current_target, current_ord) ==
  IF ord > Len(ds) THEN [docsets |-> ds, res |-> "Done", candidate |-> current_target,
                        calls |-> <<>>]
  ELSE IF ord = current_ord THEN SkipLoop(ds, ord + 1, current_target, current_ord)
  ELSE LET r == VecSkipNext(ds[ord], current_target)
           ds2 == [ds EXCEPT ![ord] = r.docset]
           e == ChildCall(ord, current_target, ds[ord], r)
       IN CASE r.res = "End" -> [docsets |-> ds2, res |-> "End", candidate |-> current_target,
                         calls |-> <<e>>]
            [] r.res = "OverStep" -> Logged(e, SkipLoop(ds2, 1, VecDoc(r.docset), ord))
            [] OTHER -> Logged(e, SkipLoop(ds2, ord + 1, current_target, current_ord))

\* skip_next() that stores `target` instead of `current_target` in self.doc.
IntSkipNextDocTarget(self, target) ==
  LET l == SkipLoop(self.docsets, 1, target, Len(self.docsets) + 1)
  IN IF l.res = "End"
       THEN [self |-> [self EXCEPT !.docsets = l.docsets], res |-> "End", calls |-> l.calls]
       ELSE [self |-> [self EXCEPT !.docsets = l.docsets, !.doc = target],
             res |-> IF target = l.candidate THEN "Reached"
                     ELSE IF l.candidate > target THEN "OverStep"
                     ELSE "Panic",
             calls |-> l.calls]

\* skip_next() that stores current_target in self.doc before it looks at
\* the outcome, so also when a child is exhausted.
IntSkipNextStoreOnEnd(self, target) ==
  LET l == SkipLoop(self.docsets, 1, target, Len(self.docsets) + 1)
  IN IF l.res = "End"
       THEN [self |-> [self EXCEPT !.docsets = l.docsets, !.doc = l.candidate], res |-> "End",
             calls |-> l.calls]
       ELSE [self |-> [self EXCEPT !.docsets = l.docsets, !.doc = l.candidate],
             res |-> IF target = l.candidate THEN "Reached"
                     ELSE IF l.candidate > target THEN "OverStep"
                     ELSE "Panic",
             calls |-> l.calls]

\* skip_next() that seeds the scan with self.doc, as advance() does,
\* instead of target.
IntSkipNextSeedDoc(self, target) ==
  LET l == SkipLoop(self.docsets, 1, self.doc, Len(self.docsets) + 1)
  IN IF l.res = "End"
       THEN [self |-> [self EXCEPT !.docsets = l.docsets], res |-> "End", calls |-> l.calls]
       ELSE [self |-> [self EXCEPT !.docsets = l.docsets, !.doc = l.candidate],
             res |-> IF target = l.candidate THEN "Reached"
                     ELSE IF l.candidate > target THEN "OverStep"
                     ELSE "Panic",
             calls |-> l.calls]

\* Intersection::skip_next.  The result "Panic" is the failure of the check
\* assert!(current_target > target).
IntSkipNext(self, target) ==
  LET l == SkipLoop(self.docsets, 1, target, Len(self.docsets) + 1)
  IN IF l.res = "End"
       THEN [self |-> [self EXCEPT !.docsets = l.docsets], res |-> "End", calls |-> l.calls]
       ELSE [self |-> [self EXCEPT !.docsets = l.docsets, !.doc = l.candidate],
             res |-> IF target = l.candidate THEN "Reached"
                     ELSE IF l.candidate > target THEN "OverStep"
                     ELSE "Panic",
             calls |-> l.calls]

\* Intersection::doc
IntDoc(self) == self.doc

\* size_hint() with .max() in place of .min().
IntSizeHintMax(self) ==
  LET RECURSIVE IterMax(_)
      IterMax(k) ==
        IF k = 1 THEN VecSizeHint(self.docsets[1])
        ELSE LET m == IterMax(k - 1)
                 h == VecSizeHint(self.docsets[k])
             IN IF h > m THEN h ELSE m
  IN IF self.docsets = <<>> THEN 0 ELSE IterMax(Len(self.docsets))

\* Intersection::size_hint: docsets.iter().map(size_hint).min().unwrap_or(0)
IntSizeHint(self) ==
  LET RECURSIVE IterMin(_)
      IterMin(k) ==
        IF k = 1 THEN VecSizeHint(self.docsets[1])
        ELSE LET m == IterMin(k - 1)
                 h == VecSizeHint(self.docsets[k])
             IN IF h < m THEN h ELSE m
  IN IF self.docsets = <<>> THEN 0 ELSE IterMin(Len(self.docsets))

\* The score of a child for a document: a weight of the child (rarer terms
\* weigh more) scaled by a factor of the document.
ScoreAt(d, docid) == (MaxDoc + 2 - Len(d.doc_ids)) * (docid + 1)

\* Scorer::score of a child: the score for the document it is parked on.
VecScore(d) == ScoreAt(d, VecDoc(d))

\* score() that leaves out the first child.
IntScoreSkipFirst(self) ==
  LET RECURSIVE IterSum(_)
      IterSum(k) == IF k <= 1 THEN 0 ELSE IterSum(k - 1) + VecScore(self.docsets[k])
  IN IterSum(Len(self.docsets))

\* Scorer::score of the Intersection: docsets.iter_mut().map(Scorer::score).sum()
IntScore(self) ==
  LET RECURSIVE IterSum(_)
      IterSum(k) == IF k = 0 THEN 0 ELSE IterSum(k - 1) + VecScore(self.docsets[k])
  IN IterSum(Len(self.docsets))

\* --------------------------------------------- owning-handle wrappers
\* doc_freq() of the wrapped DocSet.
VecDocFreq(d) == Len(d.doc_ids)

\* doc() as an outcome: <<v>> when the cursor is parked on v, <<>> when the
\* read fails (no element under the cursor).
VecDocRead(d) == IF VecPositioned(d) THEN <<VecDoc(d)>> ELSE <<>>

\* A Box<TDocSet> and a &mut TDocSet holding the DocSet d.
Box(d) == [boxed |-> d]

RefMut(d) == [unref |-> d]

\* impl DocSet for Box<TDocSet>
BoxNext(self) ==
  LET unboxed == self.boxed
      r == VecAdvance(unboxed)
  IN [self |-> [self EXCEPT !.boxed = r.docset], res |-> r.res]

\* Box::skip_next that forwards to next() and drops the target.
BoxSkipNextAsNext(self, target) ==
  LET unboxed == self.boxed
      r == VecAdvance(unboxed)
  IN [self |-> [self EXCEPT !.boxed = r.docset], res |-> IF r.res THEN "Reached" ELSE "End"]

BoxSkipNext(self, target) ==
  LET unboxed == self.boxed
      r == VecSkipNext(unboxed, target)
  IN [self |-> [self EXCEPT !.boxed = r.docset], res |-> r.res]

BoxDoc(self) == LET unboxed == self.boxed IN VecDocRead(unboxed)

BoxDocFreq(self) == LET unboxed == self.boxed IN VecDocFreq(unboxed)

\* impl DocSet for &mut TDocSet
RefNext(self) ==
  LET unref == self.unref
      r == VecAdvance(unref)
  IN [self |-> [self EXCEPT !.unref = r.docset], res |-> r.res]

RefSkipNext(self, target) ==
  LET unref == self.unref
      r == VecSkipNext(unref, target)
  IN [self |-> [self EXCEPT !.unref = r.docset], res |-> r.res]

RefDoc(self) == LET unref == self.unref IN VecDocRead(unref)

RefDocFreq(self) == LET unref == self.unref IN VecDocFreq(unref)

\* ------------------------------------------------------------ TermScorer
\* Scores are fixed-point integers.
Idfs == 1..MaxIdf

FieldnormValues == {1, 4}

ISqrt(n) == CHOOSE r \in 0..n : r * r <= n /\ n < (r + 1) * (r + 1)

\* TermScorer { idf, fieldnorm_reader_opt, postings }: fieldnorm_reader_opt
\* is <<>> (None) or <<reader>> (Some), reader[doc + 1] being get(doc).
TermScorer(idf, fieldnorm_reader_opt, postings) ==
  [idf |-> idf, fieldnorm_reader_opt |-> fieldnorm_reader_opt, postings |-> postings]

\* score() that normalises by a fieldnorm of 4 when there is no reader.
TermScoreDefaultNorm(self) ==
  IF self.fieldnorm_reader_opt = <<>>
    THEN <<self.idf \div ISqrt(4)>>
  ELSE IF VecPositioned(self.postings)
    THEN <<self.idf \div ISqrt(self.fieldnorm_reader_opt[1][VecDoc(self.postings) + 1])>>
  ELSE <<>>

\* TermScorer::score: idf divided by the square root of the fieldnorm of
\* the current document when there is a reader, idf itself when there is
\* none.  <<>> is the failed lookup of a cursor parked on no document.
TermScore(self) ==
  IF self.fieldnorm_reader_opt = <<>>
    THEN <<self.idf>>
  ELSE IF VecPositioned(self.postings)
    THEN <<self.idf \div ISqrt(self.fieldnorm_reader_opt[1][VecDoc(self.postings) + 1])>>
  ELSE <<>>

\* ------------------------------------------------- the unoptimized skip
\* DocSet::skip_next built only from advance(): advance once, then keep
\* advancing while doc() < target.
RECURSIVE UnoptLoop(_, _)
UnoptLoop(self, target) ==
  IF IntDoc(self) < target
    THEN LET a == IntAdvance(self)
         IN IF a.res THEN UnoptLoop(a.self, target)
            ELSE [self |-> a.self, res |-> "End"]
  ELSE IF IntDoc(self) = target THEN [self |-> self, res |-> "Reached"]
  ELSE [self |-> self, res |-> "OverStep"]

UnoptSkipNext(self, target) ==
  LET a == IntAdvance(self)
  IN IF a.res THEN UnoptLoop(a.self, target)
     ELSE [self |-> a.self, res |-> "End"]

\* ------------------------------------------------------------------ state
VARIABLES
  phase,       \* "input": the Vec is being prepared; "live"; "panic"
  input,       \* the Vec<VecDocSet> handed to Intersection::from
  docsets,     \* Intersection.docsets
  finished,    \* Intersection.finished
  doc,         \* Intersection.doc
  permuted,    \* an Intersection built from a permutation of the same Vec
  unopt,       \* an Intersection built from the same Vec, skipped unoptimized
  lastOp,      \* last positioning call: "none", "advance", "skip_next"
  lastTarget,  \* its target (skip_next)
  lastRes,     \* its result: "true", "false", "Reached", "OverStep", "End", "Panic"
  permRes,     \* the result of the same call on permuted
  unoptRes,    \* the result of the same call on unopt
  forward,     \* the last skip_next was a forward skip
  docRead,     \* <<v>>: doc() has returned v since the last call; <<>>: no read returned
  out,         \* doc() after every successful positioning call so far
  onlyAdvance, \* no skip_next has been called yet
  exhausted,   \* some advance() has returned false
  afterExhausted, \* advance() has been called again after it had returned false
  skipEnded,   \* some skip_next() has returned End
  calls,       \* the skip_next calls the last positioning call issued to children
  inner,       \* a leaf DocSet driven directly
  boxed,       \* a Box holding the same DocSet
  refmut,      \* a &mut to the same DocSet
  scorer,      \* a TermScorer over the same postings
  leafOp,      \* last call on the leaves: "none", "next", "skip_next", "doc", "doc_freq", "score"
  innerRes,    \* its result on inner
  boxRes,      \* its result through the Box
  refRes,      \* its result through the &mut
  scoreRes     \* the last score(): <<v>>, or <<>> when the lookup failed

intVars == <<phase, input, docsets, finished, doc, permuted, unopt, lastOp, lastTarget,
          lastRes, permRes, unoptRes, forward, docRead, out, onlyAdvance, exhausted,
          afterExhausted, skipEnded, calls>>

leafVars == <<inner, boxed, refmut, scorer, leafOp, innerRes, boxRes, refRes, scoreRes>>

vars == <<intVars, leafVars>>

Self == [docsets |-> docsets, finished |-> finished, doc |-> doc]

None == [docsets |-> <<>>, finished |-> FALSE, doc |-> 0]

SumCursors(ds) ==
  LET RECURSIVE Sum(_)
      Sum(k) == IF k = 0 THEN 0 ELSE ds[k].cursor + Sum(k - 1)
  IN Sum(Len(ds))

Init ==
  /\ phase = "input"
  /\ \E n \in 0..MaxChildren :
       \E f \in [1..n -> SUBSET DocIds] :
         input = [i \in 1..n |-> VecDocSet(SortedSeq(f[i]))]
  /\ docsets = <<>>
  /\ finished = FALSE
  /\ doc = 0
  /\ permuted = None
  /\ unopt = None
  /\ lastOp = "none"
  /\ lastTarget = 0
  /\ lastRes = "none"
  /\ permRes = "none"
  /\ unoptRes = "none"
  /\ forward = FALSE
  /\ docRead = <<>>
  /\ out = <<>>
  /\ onlyAdvance = TRUE
  /\ exhausted = FALSE
  /\ afterExhausted = FALSE
  /\ skipEnded = FALSE
  /\ calls = <<>>
  /\ inner = VecDocSet(<<>>)
  /\ boxed = Box(inner)
  /\ refmut = RefMut(inner)
  /\ scorer = TermScorer(1, <<>>, inner)
  /\ leafOp = "none"
  /\ innerRes = "none"
  /\ boxRes = "none"
  /\ refRes = "none"
  /\ scoreRes = <<>>

\* A child is advanced by the caller before the Intersection is built
\* (left.advance(); right.advance(); in the skip test).
PreAdvance(i) ==
  /\ UNCHANGED leafVars
  /\ phase = "input"
  /\ i \in 1..Len(input)
  /\ SumCursors(input) < MaxPre
  /\ input' = [input EXCEPT ![i] = VecAdvance(input[i]).docset]
  /\ UNCHANGED <<phase, docsets, finished, doc, permuted, unopt, lastOp, lastTarget,
                 lastRes, permRes, unoptRes, forward, docRead, out, onlyAdvance, exhausted,
          afterExhausted, skipEnded, calls>>

\* Intersection::from(input), and the same for a permutation of input.
Construct ==
  /\ UNCHANGED leafVars
  /\ phase = "input"
  /\ IF FromPrecondition(input)
       THEN /\ phase' = "live"
            /\ docsets' = From(input).docsets
            /\ finished' = From(input).finished
            /\ doc' = From(input).doc
            /\ unopt' = From(input)
            /\ \E p \in Perms(Len(input)) :
                 permuted' = From([i \in 1..Len(input) |-> input[p[i]]])
       ELSE /\ phase' = "panic"
            /\ UNCHANGED <<docsets, finished, doc, permuted, unopt>>
  /\ UNCHANGED <<input, lastOp, lastTarget, lastRes, permRes, unoptRes, forward,
                 docRead, out, onlyAdvance, exhausted, afterExhausted,
                 skipEnded, calls>>

BoolRes(b) == IF b THEN "true" ELSE "false"

Advance ==
  /\ UNCHANGED leafVars
  /\ phase = "live"
  /\ LET a == IntAdvance(Self)
         pa == IntAdvance(permuted)
         ua == IntAdvance(unopt)
     IN /\ docsets' = a.self.docsets
        /\ finished' = a.self.finished
        /\ doc' = a.self.doc
        /\ permuted' = pa.self
        /\ unopt' = ua.self
        /\ lastRes' = BoolRes(a.res)
        /\ permRes' = BoolRes(pa.res)
        /\ unoptRes' = BoolRes(ua.res)
        /\ out' = IF a.res THEN Append(out, IntDoc(a.self)) ELSE out
        /\ exhausted' = (exhausted \/ ~a.res)
        /\ afterExhausted' = (afterExhausted \/ exhausted)
        /\ calls' = a.calls
  /\ lastOp' = "advance"
  /\ lastTarget' = 0
  /\ forward' = FALSE
  /\ docRead' = <<>>
  /\ UNCHANGED <<phase, input, onlyAdvance, skipEnded>>

SkipNext(target) ==
  /\ UNCHANGED leafVars
  /\ phase = "live"
  /\ LET a == IntSkipNext(Self, target)
         pa == IntSkipNext(permuted, target)
         ua == UnoptSkipNext(unopt, target)
     IN /\ docsets' = a.self.docsets
        /\ finished' = a.self.finished
        /\ doc' = a.self.doc
        /\ permuted' = pa.self
        /\ unopt' = ua.self
        /\ lastRes' = a.res
        /\ permRes' = pa.res
        /\ unoptRes' = ua.res
        /\ out' = IF a.res \in {"Reached", "OverStep"} THEN Append(out, IntDoc(a.self)) ELSE out
        /\ skipEnded' = (skipEnded \/ a.res = "End")
        /\ calls' = a.calls
  /\ lastOp' = "skip_next"
  /\ lastTarget' = target
  /\ forward' = (out = <<>> \/ target > doc)
  /\ docRead' = <<>>
  /\ onlyAdvance' = FALSE
  /\ UNCHANGED <<phase, input, exhausted, afterExhausted>>

ReadDoc ==
  /\ UNCHANGED leafVars
  /\ phase = "live"
  /\ docRead' = <<IntDoc(Self)>>
  /\ UNCHANGED <<phase, input, docsets, finished, doc, permuted, unopt, lastOp, lastTarget,
                 lastRes, permRes, unoptRes, forward, out, onlyAdvance, exhausted, afterExhausted,
                 skipEnded, calls>>

Next ==
  \/ \E i \in 1..MaxChildren : PreAdvance(i)
  \/ Construct
  \/ Advance
  \/ \E target \in Targets : SkipNext(target)
  \/ ReadDoc

Spec == Init /\ [][Next]_vars

\* ------------------------------------------------- the leaf specification
\* One DocSet is driven directly, through a Box and through a &mut, the
\* same call being made on all three; a TermScorer reads the same postings.
TermScorerAdvance(self) == [self EXCEPT !.postings = VecAdvance(@).docset]

TermScorerSkipNext(self, target) == [self EXCEPT !.postings = VecSkipNext(@, target).docset]

FieldnormReaders == [1..(MaxDoc + 1) -> FieldnormValues]

InitLeaf ==
  /\ phase = "leaf"
  /\ input = <<>>
  /\ docsets = <<>>
  /\ finished = FALSE
  /\ doc = 0
  /\ permuted = None
  /\ unopt = None
  /\ lastOp = "none"
  /\ lastTarget = 0
  /\ lastRes = "none"
  /\ permRes = "none"
  /\ unoptRes = "none"
  /\ forward = FALSE
  /\ docRead = <<>>
  /\ out = <<>>
  /\ onlyAdvance = TRUE
  /\ exhausted = FALSE
  /\ afterExhausted = FALSE
  /\ skipEnded = FALSE
  /\ calls = <<>>
  /\ \E s \in SUBSET DocIds : inner = VecDocSet(SortedSeq(s))
  /\ boxed = Box(inner)
  /\ refmut = RefMut(inner)
  /\ \E idf \in Idfs :
       \E fieldnorm_reader_opt \in {<<>>} \cup {<<r>> : r \in FieldnormReaders} :
         scorer = TermScorer(idf, fieldnorm_reader_opt, inner)
  /\ leafOp = "none"
  /\ innerRes = "none"
  /\ boxRes = "none"
  /\ refRes = "none"
  /\ scoreRes = <<>>

LeafNext ==
  /\ phase = "leaf"
  /\ inner' = VecAdvance(inner).docset
  /\ innerRes' = BoolRes(VecAdvance(inner).res)
  /\ boxed' = BoxNext(boxed).self
  /\ boxRes' = BoolRes(BoxNext(boxed).res)
  /\ refmut' = RefNext(refmut).self
  /\ refRes' = BoolRes(RefNext(refmut).res)
  /\ scorer' = TermScorerAdvance(scorer)
  /\ leafOp' = "next"
  /\ UNCHANGED <<intVars, scoreRes>>

LeafSkipNext(target) ==
  /\ phase = "leaf"
  /\ inner' = VecSkipNext(inner, target).docset
  /\ innerRes' = VecSkipNext(inner, target).res
  /\ boxed' = BoxSkipNext(boxed, target).self
  /\ boxRes' = BoxSkipNext(boxed, target).res
  /\ refmut' = RefSkipNext(refmut, target).self
  /\ refRes' = RefSkipNext(refmut, target).res
  /\ scorer' = TermScorerSkipNext(scorer, target)
  /\ leafOp' = "skip_next"
  /\ UNCHANGED <<intVars, scoreRes>>

LeafDoc ==
  /\ phase = "leaf"
  /\ innerRes' = VecDocRead(inner)
  /\ boxRes' = BoxDoc(boxed)
  /\ refRes' = RefDoc(refmut)
  /\ leafOp' = "doc"
  /\ UNCHANGED <<intVars, inner, boxed, refmut, scorer, scoreRes>>

LeafDocFreq ==
  /\ phase = "leaf"
  /\ innerRes' = VecDocFreq(inner)
  /\ boxRes' = BoxDocFreq(boxed)
  /\ refRes' = RefDocFreq(refmut)
  /\ leafOp' = "doc_freq"
  /\ UNCHANGED <<intVars, inner, boxed, refmut, scorer, scoreRes>>

LeafScore ==
  /\ phase = "leaf"
  /\ scoreRes' = TermScore(scorer)
  /\ leafOp' = "score"
  /\ UNCHANGED <<intVars, inner, boxed, refmut, scorer, innerRes, boxRes, refRes>>

NextLeaf ==
  \/ LeafNext
  \/ \E target \in Targets : LeafSkipNext(target)
  \/ LeafDoc
  \/ LeafDocFreq
  \/ LeafScore

SpecLeaf == InitLeaf /\ [][NextLeaf]_vars

TypeOK ==
  /\ phase \in {"input", "live", "panic"}
  /\ finished \in BOOLEAN
  /\ doc \in DocIds
  /\ lastRes \in {"none", "true", "false", "Reached", "OverStep", "End"}

\* ------------------------------------------------------------ properties
Success == lastRes \in {"true", "Reached", "OverStep"}

\* The set intersection of the children's underlying sequences.
Inter == {d \in DocIds : \A i \in 1..Len(input) : d \in Range(input[i].doc_ids)}

\* The DocIds a child had not yet consumed when the Intersection was built.
Remaining(d) == {d.doc_ids[k] : k \in (d.cursor + 1)..Len(d.doc_ids)}

InterRemaining == {d \in DocIds : \A i \in 1..Len(input) : d \in Remaining(input[i])}

Fresh == \A i \in 1..Len(input) : input[i].cursor = 0

\* C1: with unpositioned children, repeated advance() yields (through doc())
\* exactly the sorted set intersection of the children's sequences: what has
\* been produced so far is a prefix of it, and all of it once advance() has
\* returned false.
C1_AdvanceYieldsIntersection ==
  (phase = "live" /\ Fresh /\ onlyAdvance) =>
    /\ IsPrefix(out, SortedSeq(Inter))
    /\ exhausted => out = SortedSeq(Inter)

C1_Witness ==
  /\ phase = "live" /\ Fresh /\ onlyAdvance /\ exhausted
  /\ Len(input) = 3 /\ Len(out) = 2
  /\ \E i \in 1..3 : Range(input[i].doc_ids) # Inter

\* C2: the doc() values read after successive successful positioning calls
\* (advance and skip_next in any order) are strictly increasing.
C2_StrictlyIncreasing == StrictlyIncreasing(out)

C2_Witness ==
  /\ Len(out) >= 3 /\ ~onlyAdvance /\ lastOp = "advance" /\ lastRes = "true"

C4_SkipMatchesUnoptimized ==
  (phase = "live" /\ lastOp # "none") =>
    /\ unoptRes = lastRes
    /\ Success => IntDoc(unopt) = doc

C4_Witness ==
  /\ phase = "live" /\ lastOp = "advance" /\ lastRes = "true" /\ ~onlyAdvance
  /\ Len(out) = 2 /\ unoptRes = "true" /\ Len(input) = 3

\* C5: once advance() has returned false, every later advance() returns
\* false and doc() keeps its value.
C5_ExhaustionPermanent ==
  [][exhausted => (doc' = doc /\ (lastOp' = "advance" => lastRes' = "false"))]_vars

C5_Witness ==
  /\ afterExhausted /\ lastOp = "advance" /\ lastRes = "false" /\ out # <<>>
  /\ ~onlyAdvance

\* C6: once finished is set, every further positioning call returns
\* false / End and leaves every child's cursor where it was.
C6_FinishedFreezesChildren ==
  [][(finished /\ lastOp' \in {"advance", "skip_next"}) =>
       (lastRes' \in {"false", "End"} /\ docsets' = docsets)]_vars

\* C7: after a successful positioning call every child is parked on the
\* Intersection's doc().
C7_ChildrenParkedOnDoc ==
  (phase = "live" /\ Success) =>
    \A i \in 1..Len(docsets) : VecPositioned(docsets[i]) /\ VecDoc(docsets[i]) = doc

C7_Witness ==
  /\ phase = "live" /\ lastRes = "OverStep" /\ Len(docsets) = 3 /\ Len(out) >= 2
  /\ \E i \in 1..3 : docsets[i].cursor >= 3

\* C8: an Intersection built from a permutation of the same children gives
\* the same results and the same doc() values for the same calls.
C8_PermutationInvariant ==
  (phase = "live" /\ lastOp # "none") =>
    /\ permRes = lastRes
    /\ Success => IntDoc(permuted) = doc

C8_Witness ==
  /\ phase = "live" /\ lastRes = "OverStep" /\ Len(docsets) = 3
  /\ \E i \in 1..Len(docsets) : permuted.docsets[i].doc_ids # docsets[i].doc_ids

\* C9: Intersection::from panics on fewer than 2 children and produces no
\* Intersection; with 2 or more it succeeds with finished = false.
C9_ConstructNeedsTwo ==
  /\ phase = "panic" => (Len(input) < 2 /\ docsets = <<>>)
  /\ phase = "live" => (Len(input) >= 2 /\ Len(docsets) = Len(input))
  /\ (phase = "live" /\ lastOp = "none") => finished = FALSE

C9_Witness == phase = "panic" /\ Len(input) = 1

\* C10: doc() read before the first positioning call aborts: it returns
\* no DocId.
C10_DocBeforePositioningAborts ==
  (phase = "live" /\ lastOp = "none") => docRead = <<>>

\* ------------------------------------- properties of the calls to children
NCalls == Len(calls)

\* The positions of the calls in which a child reported OverStep: each one
\* restarts the scan.
Restarts == {k \in 1..NCalls : calls[k].res = "OverStep"}

\* The largest DocId any child can report.
LargestDoc ==
  LET all == UNION {Range(docsets[i].doc_ids) : i \in 1..Len(docsets)}
  IN IF all = {} THEN 0 ELSE CHOOSE x \in all : \A y \in all : y <= x

\* C15: within one advance() or skip_next() the candidate never decreases
\* and strictly increases at every OverStep, the restarts are at most the
\* largest DocId a child can report, the number of child calls is bounded
\* accordingly, and the call ends with a child reporting End (as its last
\* call) or with every child parked on the candidate.
C15_CallTerminates ==
  (phase = "live" /\ lastOp # "none") =>
    /\ \A k \in 1..(NCalls - 1) :
         /\ calls[k + 1].target >= calls[k].target
         /\ calls[k].res # "End"
         /\ calls[k].res = "OverStep" =>
              (calls[k].doc > calls[k].target /\ calls[k + 1].target = calls[k].doc)
    /\ Cardinality(Restarts) <= LargestDoc
    /\ NCalls <= (Cardinality(Restarts) + 1) * Len(docsets)
    /\ \/ NCalls > 0 /\ calls[NCalls].res = "End" /\ ~Success
       \/ NCalls = 0 /\ finished /\ lastRes = "false"
       \/ /\ Success
          /\ \A i \in 1..Len(docsets) : VecPositioned(docsets[i]) /\ VecDoc(docsets[i]) = doc

C15_Witness ==
  /\ phase = "live" /\ Success /\ Len(docsets) = 3 /\ Cardinality(Restarts) = 2
  /\ Cardinality(Restarts) = LargestDoc

\* C16: whenever a child reports End during a positioning call, advance()
\* as well as skip_next(), the Intersection sets finished and returns the
\* exhausted outcome.
C16_EndSetsFinished ==
  (phase = "live" /\ NCalls > 0 /\ calls[NCalls].res = "End") =>
    (finished /\ lastRes \in {"false", "End"})

\* C17: the child that reported OverStep last (the candidate owner)
\* receives no skip_next while it is the owner: a later call to it comes
\* after another child has reported OverStep, with a larger target.
C17_OwnerNotSkipped ==
  \A k \in 1..NCalls : \A j \in (k + 1)..NCalls :
    (calls[k].res = "OverStep" /\ calls[j].ord = calls[k].ord) =>
      /\ \E m \in (k + 1)..(j - 1) :
           calls[m].res = "OverStep" /\ calls[m].ord # calls[k].ord
      /\ calls[j].target > calls[k].doc

C17_Witness ==
  /\ phase = "live" /\ Len(docsets) = 3
  /\ \E k \in 1..NCalls : \E j \in (k + 1)..NCalls :
       /\ calls[k].res = "OverStep" /\ calls[j].ord = calls[k].ord
       /\ j > k + 2

\* C18: every skip_next the Intersection issues to a child that is parked
\* on a DocId has a target strictly greater than that DocId.
C18_ChildrenSkippedForward ==
  \A k \in 1..NCalls : calls[k].at # -1 => calls[k].target > calls[k].at

\* C19: the check `current_target > target` of skip_next never fails: when
\* the scan completes on a candidate other than target, it is greater.
C19_SkipCheckHolds ==
  (phase = "live" /\ lastOp = "skip_next") =>
    /\ lastRes # "Panic"
    /\ (lastRes # "End" /\ doc # lastTarget) => (doc > lastTarget /\ lastRes = "OverStep")

C19_Witness ==
  /\ phase = "live" /\ lastOp = "skip_next" /\ lastRes = "OverStep"
  /\ Cardinality(Restarts) >= 1 /\ Len(out) >= 2 /\ Len(docsets) = 3

\* C20: after a skip_next() has returned End, every later advance() returns
\* false, every later skip_next() returns End, and doc() keeps its value.
C20_SkipEndPermanent ==
  [][skipEnded => (doc' = doc /\ lastRes' \in {"false", "End"})]_vars

C20_Witness ==
  /\ skipEnded /\ ~afterExhausted /\ lastOp = "advance" /\ lastRes = "false"
  /\ out # <<>> /\ \E i \in 1..Len(docsets) : VecPositioned(docsets[i])

\* C12: in every reachable state size_hint() of the Intersection is the
\* minimum of the children's size_hint(): no child has a smaller one and
\* some child has exactly it.
C12_SizeHintIsMin ==
  phase = "live" =>
    /\ \A i \in 1..Len(docsets) : IntSizeHint(Self) <= VecSizeHint(docsets[i])
    /\ \E i \in 1..Len(docsets) : IntSizeHint(Self) = VecSizeHint(docsets[i])

C12_Witness ==
  /\ phase = "live" /\ Success /\ Len(docsets) = 3 /\ IntSizeHint(Self) = 1
  /\ \E i \in 1..3 : VecSizeHint(docsets[i]) = 3

\* The sum over the children handed to From of their scores for docid.
RECURSIVE SumScoresAt(_, _, _)
SumScoresAt(ds, k, docid) ==
  IF k = 0 THEN 0 ELSE SumScoresAt(ds, k - 1, docid) + ScoreAt(ds[k], docid)

\* C13: after a successful positioning call score() is the sum, over all
\* the children, of the child's score for the Intersection's doc(), each
\* child counted once.
C13_ScoreIsSum ==
  (phase = "live" /\ Success) => IntScore(Self) = SumScoresAt(input, Len(input), doc)

C13_Witness ==
  /\ phase = "live" /\ lastRes = "OverStep" /\ Len(docsets) = 3 /\ doc = 2
  /\ \E i \in 1..3 : VecSizeHint(docsets[i]) # VecSizeHint(docsets[1])

\* C11: a call of next, skip_next, doc or doc_freq made through a Box or a
\* &mut returns what the same call returns on the wrapped DocSet itself and
\* leaves the wrapped cursor where the direct call leaves it.
C11_WrappersForward ==
  phase = "leaf" =>
    /\ boxed.boxed = inner /\ boxRes = innerRes
    /\ refmut.unref = inner /\ refRes = innerRes

C11_Witness ==
  /\ phase = "leaf" /\ leafOp = "skip_next"
  /\ boxRes = "OverStep" /\ refRes = "OverStep"
  /\ VecDoc(boxed.boxed) = MaxDoc /\ Len(inner.doc_ids) >= 2

\* C14: a TermScorer with no fieldnorm reader scores every document its
\* postings are parked on with exactly its idf.
C14_NoFieldnormScoresIdf ==
  (phase = "leaf" /\ leafOp = "score" /\ scorer.fieldnorm_reader_opt = <<>>
     /\ VecPositioned(scorer.postings)) =>
    scoreRes = <<scorer.idf>>

C14_Witness ==
  /\ phase = "leaf" /\ leafOp = "score" /\ scorer.fieldnorm_reader_opt = <<>>
  /\ VecPositioned(scorer.postings) /\ VecDoc(scorer.postings) > 0
  /\ scorer.idf = MaxIdf /\ scoreRes = <<MaxIdf>>

====
